---- MODULE Spec2Model ----
(***************************************************************************)
(* Model of detect_secrets/transformers/yaml.py:                           *)
(*   - YAMLTransformer.parse_file and YAMLFileParser.__iter__              *)
(*     (specification Spec),                                               *)
(*   - the body of parse_file's rendering loop applied to one record       *)
(*     (specification SpecRender),                                         *)
(*   - the composition shims _compose_node_shim,                           *)
(*     _parse_flow_mapping_key_shim, _check_next_tokens_shim and           *)
(*     _tag_dict_values driven by the PyYAML parser/composer               *)
(*     (specification SpecCompose),                                        *)
(*   - one call of _tag_dict_values, pair by pair (specification SpecTag). *)
(* A Python str is a sequence of one-character strings.                    *)
(***************************************************************************)
EXTENDS Integers, Sequences, FiniteSets, TLC

VARIABLES
    \* ---- parse_file / __iter__ ----
    pc,          \* position in parse_file
    content,     \* self.content.splitlines()
    root,        \* the object self.json() returns when loading succeeds
    to_search,   \* the deque of __iter__
    yielded,     \* the records __iter__ has yielded so far, in order
    items,       \* parse_file's sorted list
    lines,       \* parse_file's output list
    idx,         \* index of the next item of the rendering loop
    raised,      \* the exception raised inside parse_file, "none" if none
    outcome,     \* what parse_file surfaced to its caller
    step,        \* the last iteration of __iter__'s loop: item and state before
    \* ---- one iteration of the rendering loop ----
    r_pc, r_item, r_line, r_comment, r_value, r_text,
    \* ---- composition shims ----
    is_inline_flow_mapping_key,  \* self.is_inline_flow_mapping_key
    marks,       \* self.loader.marks
    loader_line, \* self.loader.line
    stack,       \* open calls of _compose_node_shim
    result,      \* nodes returned by finished top-level calls
    nodes_left,  \* nodes the document still holds
    c_out,       \* "running", or the exception that ended composition
    last,        \* the last shim step and what it saw
    \* ---- one call of _tag_dict_values ----
    t_pc, map_node, new_values, t_i, output

vars_p == <<pc, content, root, to_search, yielded, items, lines, idx, raised, outcome, step>>
vars_r == <<r_pc, r_item, r_line, r_comment, r_value, r_text>>
vars_c == <<is_inline_flow_mapping_key, marks, loader_line, stack, result, nodes_left, c_out, last>>
vars_t == <<t_pc, map_node, new_values, t_i, output>>
vars == <<vars_p, vars_r, vars_c, vars_t>>

----------------------------------------------------------------------------
(* Bounds *)

\* Largest line number of a document.
MaxLine == 3

\* Longest source line of a record whose rendering is followed step by step.
MaxLineLen == 5

\* Nodes of a composed document, and nesting depth of its collections.
MaxNodes == 5
MaxDepth == 2

\* Largest value of the loader's line cursor (0-based) during composition.
MaxCursor == 1

\* Longest pending token queue the key shim looks at.
MaxTokens == 2

\* Most (key, value) pairs of a mapping node given to _tag_dict_values.
MaxPairs == 2

----------------------------------------------------------------------------
(* Python strings *)

LINE_KEY == <<"_", "_", "l", "i", "n", "e", "_", "_">>
VALUE_KEY == <<"_", "_", "v", "a", "l", "u", "e", "_", "_">>
ORIGINAL_KEY == <<"_", "_", "o", "r", "i", "g", "i", "n", "a", "l", "_", "k", "e", "y", "_", "_">>

\* needle in hay, for two str
Contains(needle, hay) ==
    \E i \in 0..(Len(hay) - Len(needle)) : SubSeq(hay, i + 1, i + Len(needle)) = needle

\* str.isspace for the characters of the model: "\t" stands for every
\* whitespace character other than the space.
IsSpace(c) == c \in {" ", "\t"}

\* str.strip()
Strip(s) ==
    LET keep == {i \in 1..Len(s) : ~IsSpace(s[i])}
    IN  IF keep = {} THEN <<>>
        ELSE SubSeq(s, CHOOSE i \in keep : \A j \in keep : i <= j,
                       CHOOSE i \in keep : \A j \in keep : j <= i)

RECURSIVE ReplaceQuote(_)
\* value.replace('"', '\\"')
ReplaceQuote(s) ==
    IF s = <<>> THEN <<>>
    ELSE (IF Head(s) = "\"" THEN <<"\\", "\"">> ELSE <<Head(s)>>) \o ReplaceQuote(Tail(s))

\* str(n) for the small integers of the model
Digits(n) ==
    LET d == <<"0", "1", "2", "3", "4", "5", "6", "7", "8", "9">>
    IN  IF n < 0 THEN <<"-">> \o <<d[(-n) + 1]>> ELSE IF n < 10 THEN <<d[n + 1]>>
        ELSE <<d[(n \div 10) + 1], d[(n % 10) + 1]>>

----------------------------------------------------------------------------
(* base64.b64encode *)

B64Chars ==
    <<"A", "B", "C", "D", "E", "F", "G", "H", "I", "J", "K", "L", "M",
      "N", "O", "P", "Q", "R", "S", "T", "U", "V", "W", "X", "Y", "Z",
      "a", "b", "c", "d", "e", "f", "g", "h", "i", "j", "k", "l", "m",
      "n", "o", "p", "q", "r", "s", "t", "u", "v", "w", "x", "y", "z",
      "0", "1", "2", "3", "4", "5", "6", "7", "8", "9", "+", "/">>

\* The byte value of the bytes the model's documents hold.
Ord(c) ==
    CASE c = "h" -> 104 [] c = "e" -> 101 [] c = "l" -> 108 [] c = "o" -> 111
      [] c = "\"" -> 34 [] OTHER -> 63

B64Group(b) ==
    LET b1 == Ord(b[1])
        b2 == IF Len(b) >= 2 THEN Ord(b[2]) ELSE 0
        b3 == IF Len(b) >= 3 THEN Ord(b[3]) ELSE 0
        n  == b1 * 65536 + b2 * 256 + b3
        c1 == B64Chars[(n \div 262144) + 1]
        c2 == B64Chars[((n \div 4096) % 64) + 1]
        c3 == B64Chars[((n \div 64) % 64) + 1]
        c4 == B64Chars[(n % 64) + 1]
    IN  IF Len(b) >= 3 THEN <<c1, c2, c3, c4>>
        ELSE IF Len(b) = 2 THEN <<c1, c2, c3, "=">>
        ELSE <<c1, c2, "=", "=">>

RECURSIVE B64Encode(_)
B64Encode(b) ==
    IF b = <<>> THEN <<>>
    ELSE IF Len(b) <= 3 THEN B64Group(b)
    ELSE B64Group(SubSeq(b, 1, 3)) \o B64Encode(SubSeq(b, 4, Len(b)))

----------------------------------------------------------------------------
(* Python objects, as self.json() builds them *)

PyVal(kind, keys, vals, s, n) == [kind |-> kind, keys |-> keys, vals |-> vals, s |-> s, n |-> n]
PyDict(keys, vals) == PyVal("dict", keys, vals, <<>>, 0)
PyList(vals) == PyVal("list", <<>>, vals, <<>>, 0)
PyStr(s) == PyVal("str", <<>>, <<>>, s, 0)
PyBytes(s) == PyVal("bytes", <<>>, <<>>, s, 0)
PyInt(n) == PyVal("int", <<>>, <<>>, <<>>, n)
PyTrue == PyVal("bool", <<>>, <<>>, <<>>, 1)
PyNone == PyVal("none", <<>>, <<>>, <<>>, 0)

\* bool(item)
Truthy(v) ==
    CASE v.kind = "dict" -> Len(v.keys) > 0
      [] v.kind = "list" -> Len(v.vals) > 0
      [] v.kind \in {"str", "bytes"} -> Len(v.s) > 0
      [] v.kind \in {"int", "bool"} -> v.n # 0
      [] OTHER -> FALSE

HasKey(d, k) == \E i \in 1..Len(d.keys) : d.keys[i] = k
DictGet(d, k) == d.vals[CHOOSE i \in 1..Len(d.keys) : d.keys[i] = k]

\* '__line__' in item: "yes", "no", or "TypeError" for an object that is no container
LineIn(item) ==
    CASE item.kind = "dict" -> IF HasKey(item, LINE_KEY) THEN "yes" ELSE "no"
      [] item.kind = "str" -> IF Contains(LINE_KEY, item.s) THEN "yes" ELSE "no"
      [] item.kind = "list" ->
            IF \E i \in 1..Len(item.vals) :
                  item.vals[i].kind = "str" /\ item.vals[i].s = LINE_KEY
            THEN "yes" ELSE "no"
      [] OTHER -> "TypeError"

----------------------------------------------------------------------------
(* _yaml_comment_regex: the pattern is \s+# followed by any number of [\S ] *)

\* A match of \s+# can start at i: line[i] is whitespace and the whitespace run
\* that starts there is directly followed by '#'.
CommentStartsAt(line, i) ==
    /\ IsSpace(line[i])
    /\ \E j \in (i + 1)..Len(line) :
          /\ line[j] = "#"
          /\ \A m \in i..(j - 1) : IsSpace(line[m])

\* [\S ]: a character that is no whitespace, or the space
CommentChar(c) == ~IsSpace(c) \/ c = " "

\* search(line).group(0), or '' when there is no match: the leftmost match,
\* \s+ and [\S ]* both greedy.
YamlComment(line) ==
    LET starts == {i \in 1..Len(line) : CommentStartsAt(line, i)}
    IN  IF starts = {} THEN <<>>
        ELSE LET i == CHOOSE a \in starts : \A b \in starts : a <= b
                 j == CHOOSE h \in (i + 1)..Len(line) :
                         line[h] = "#" /\ \A m \in i..(h - 1) : IsSpace(line[m])
                 ends == {e \in j..Len(line) : \A m \in (j + 1)..e : CommentChar(line[m])}
                 e == CHOOSE a \in ends : \A b \in ends : b <= a
             IN  SubSeq(line, i, e)

----------------------------------------------------------------------------
(* YAMLFileParser.__iter__ *)

YAMLValue(key, value, line_number, line) ==
    [key |-> key, value |-> value, line_number |-> line_number, line |-> line]

\* lines[i] with Python's indexing: "IndexError" outside -len..len-1
PyIndexOk(seq, i) == -Len(seq) <= i /\ i < Len(seq)
PyIndex(seq, i) == IF i >= 0 THEN seq[i + 1] ELSE seq[Len(seq) + i + 1]

\* The yield statement: the four keyword arguments are evaluated in order.
\* item['...'] raises TypeError for a str or a list and KeyError for a dict
\* without the key; item['__line__'] - 1 raises TypeError unless it is a number.
YieldOf(item, src) ==
    IF item.kind # "dict" THEN [exc |-> "TypeError", rec |-> <<>>]
    ELSE IF ~HasKey(item, ORIGINAL_KEY) \/ ~HasKey(item, VALUE_KEY)
    THEN [exc |-> "KeyError", rec |-> <<>>]
    ELSE LET ln == DictGet(item, LINE_KEY)
         IN  IF ln.kind \notin {"int", "bool"} THEN [exc |-> "TypeError", rec |-> <<>>]
             ELSE IF ~PyIndexOk(src, ln.n - 1) THEN [exc |-> "IndexError", rec |-> <<>>]
             ELSE [exc |-> "none",
                   rec |-> <<YAMLValue(DictGet(item, ORIGINAL_KEY), DictGet(item, VALUE_KEY),
                                       ln.n, PyIndex(src, ln.n - 1))>>]

\* One iteration of the while loop on the popped item: the exception it raises
\* ("none" if none), what it appends to to_search and what it yields.
IterBody(item, src) ==
    IF ~Truthy(item) THEN [exc |-> "none", enqueue |-> <<>>, rec |-> <<>>]
    ELSE LET has == LineIn(item)
         IN  CASE has = "TypeError" -> [exc |-> "none", enqueue |-> <<>>, rec |-> <<>>]
               [] has = "no" ->
                     IF item.kind = "str" THEN [exc |-> "none", enqueue |-> <<>>, rec |-> <<>>]
                     ELSE [exc |-> "none", enqueue |-> item.vals, rec |-> <<>>]
               [] OTHER ->
                     LET y == YieldOf(item, src)
                     IN  [exc |-> y.exc, enqueue |-> <<>>, rec |-> y.rec]

----------------------------------------------------------------------------
(* YAMLTransformer.parse_file *)

RECURSIVE InsertByLine(_, _)
\* x placed after every record whose line_number is not larger
InsertByLine(sorted, x) ==
    IF sorted = <<>> THEN <<x>>
    ELSE IF Head(sorted).line_number <= x.line_number
         THEN <<Head(sorted)>> \o InsertByLine(Tail(sorted), x)
         ELSE <<x>> \o sorted

\* A parse_file that keeps the traversal order of __iter__
UnsortedRecords(recs) == recs

RECURSIVE SortedByLine(_)
\* sorted(records, key=lambda x: x.line_number): ascending and stable
SortedByLine(recs) ==
    IF recs = <<>> THEN <<>>
    ELSE InsertByLine(SortedByLine(SubSeq(recs, 1, Len(recs) - 1)), recs[Len(recs)])

\* A parse_file without the except clause: every exception propagates
ExceptClauseMissing(exc) == exc

\* except yaml.YAMLError: raise ParsingError; any other exception propagates
ExceptClause(exc) == IF exc = "YAMLError" THEN "ParsingError" ELSE exc

\* while len(lines) < item.line_number - 1: lines.append('')
Padded(out, item) ==
    IF Len(out) < item.line_number - 1
    THEN out \o [i \in 1..(item.line_number - 1 - Len(out)) |-> <<>>]
    ELSE out

\* str(item.key) as the f-string formats it
FormatKey(key) == IF key.kind = "str" THEN key.s ELSE Digits(key.n)

\* The value after the bytes branch: base64 text for bytes
RenderValue(value) == IF value.kind = "bytes" THEN B64Encode(value.s) ELSE value.s

\* comment of the record: the regex on the stripped source line
CommentOf(item) == YamlComment(Strip(item.line))

\* f'{item.key}: "{value}"{comment}'
RenderLine(item) ==
    FormatKey(item.key) \o <<":", " ", "\"">> \o ReplaceQuote(RenderValue(item.value))
        \o <<"\"">> \o CommentOf(item)

\* One iteration of the for loop; value.replace raises AttributeError unless
\* the value is a str (or bytes, encoded before).
RenderBody(out, item) ==
    IF item.value.kind \notin {"str", "bytes"}
    THEN [exc |-> "AttributeError", lines |-> Padded(out, item)]
    ELSE [exc |-> "none", lines |-> Padded(out, item) \o <<RenderLine(item)>>]

RECURSIVE RenderAll(_, _)
\* The whole for loop on records that all render
RenderAll(out, recs) ==
    IF recs = <<>> THEN out
    ELSE RenderAll(RenderBody(out, Head(recs)).lines, Tail(recs))

----------------------------------------------------------------------------
(* Documents: what self.json() returns for the annotated tree of a document.  *)
(* A str or binary value of a mapping is always the three-field mapping       *)
(* _tag_dict_values built for it; a bare str or bytes is the document root    *)
(* or an element of a sequence.                                               *)

KA == <<"a">>
KB == <<"b">>

\* The constructed form of the mapping _tag_dict_values builds
Prov(k, v, l) == PyDict(<<VALUE_KEY, LINE_KEY, ORIGINAL_KEY>>, <<v, PyInt(l), PyStr(k)>>)

SecretValues == {PyStr(<<"v">>), PyStr(<<"s", "\"">>), PyBytes(<<"h", "e", "l", "l", "o">>)}

Leaves(k) == {Prov(k, v, l) : v \in SecretValues, l \in 1..MaxLine}

\* Values that _tag_dict_values passes through
PlainScalars == {PyNone, PyInt(7), PyInt(0), PyTrue}

\* Elements of a sequence, and document roots, that are no containers
BareScalars ==
    PlainScalars \cup {PyStr(<<>>), PyStr(<<"v">>), PyStr(<<"x">> \o LINE_KEY),
                       PyStr(LINE_KEY), PyBytes(<<"h">>)}

\* Mappings of the document that themselves use the key __line__
LineKeyMappings ==
    {PyDict(<<LINE_KEY>>, <<PyInt(1)>>),
     PyDict(<<LINE_KEY>>, <<Prov(LINE_KEY, PyStr(<<"v">>), 1)>>)}

Sequences ==
    {PyList(<<x>>) : x \in BareScalars} \cup
    {PyList(<<PyDict(<<KB>>, <<x>>)>>) : x \in Leaves(KB)} \cup {PyList(<<>>)}

\* What a mapping of the document can hold under key k
Entries(k) ==
    Leaves(k) \cup PlainScalars \cup Sequences \cup LineKeyMappings \cup
    {PyDict(<<KB>>, <<x>>) : x \in Leaves(KB)} \cup {PyDict(<<>>, <<>>)}

Documents ==
    {PyDict(<<KA>>, <<x>>) : x \in Entries(KA)} \cup
    {PyDict(<<KA, KB>>, <<x, y>>) : x \in Entries(KA), y \in Entries(KB)} \cup
    Sequences \cup BareScalars

\* Source texts: MaxLine lines each
SourceTexts ==
    {[i \in 1..MaxLine |-> l] :
        l \in {<<"a", ":", " ", "v">>, <<" ", "a", ":", " ", "v", " ", "#", "c">>}}

----------------------------------------------------------------------------
(* parse_file as a state machine *)

NoStep == [op |-> "none", item |-> PyNone, exc |-> "none", enqueued |-> <<>>, recs |-> <<>>]

InitParse ==
    /\ pc = "construct"
    /\ content \in SourceTexts
    /\ root \in Documents
    /\ to_search = <<>>
    /\ yielded = <<>>
    /\ items = <<>>
    /\ lines = <<>>
    /\ idx = 1
    /\ raised = "none"
    /\ outcome = "running"
    /\ step = NoStep

\* YAMLFileParser(file): __init__ reads the content and builds the loader
Construct ==
    /\ pc = "construct"
    /\ pc' = "load"
    /\ UNCHANGED <<content, root, to_search, yielded, items, lines, idx, raised, outcome, step>>
    /\ UNCHANGED <<vars_r, vars_c, vars_t>>

\* The first next() on the generator: to_search = deque([self.json()])
Load ==
    /\ pc = "load"
    /\ to_search' = <<root>>
    /\ pc' = "iter"
    /\ UNCHANGED <<content, root, yielded, items, lines, idx, raised, outcome, step>>
    /\ UNCHANGED <<vars_r, vars_c, vars_t>>

\* The library raises yaml.YAMLError while the loader is built or while the
\* document is loaded (scanned, parsed, composed, constructed) by self.json().
RaiseYAMLError ==
    /\ pc \in {"construct", "load"}
    /\ raised' = "YAMLError"
    /\ outcome' = ExceptClause("YAMLError")
    /\ pc' = "done"
    /\ UNCHANGED <<content, root, to_search, yielded, items, lines, idx, step>>
    /\ UNCHANGED <<vars_r, vars_c, vars_t>>

\* One iteration of __iter__'s while loop
IterStep ==
    /\ pc = "iter"
    /\ to_search # <<>>
    /\ LET item == Head(to_search)
           b == IterBody(item, content)
       IN  /\ step' = [op |-> "iter", item |-> item, exc |-> b.exc,
                       enqueued |-> b.enqueue, recs |-> b.rec]
           /\ to_search' = Tail(to_search) \o b.enqueue
           /\ yielded' = yielded \o b.rec
           /\ IF b.exc = "none"
              THEN UNCHANGED <<pc, raised, outcome>>
              ELSE /\ raised' = b.exc
                   /\ outcome' = ExceptClause(b.exc)
                   /\ pc' = "done"
    /\ UNCHANGED <<content, root, items, lines, idx>>
    /\ UNCHANGED <<vars_r, vars_c, vars_t>>

\* The generator is exhausted: sorted() returns and lines = []
IterEnd ==
    /\ pc = "iter"
    /\ to_search = <<>>
    /\ items' = SortedByLine(yielded)
    /\ lines' = <<>>
    /\ idx' = 1
    /\ pc' = "render"
    /\ UNCHANGED <<content, root, to_search, yielded, raised, outcome, step>>
    /\ UNCHANGED <<vars_r, vars_c, vars_t>>

\* One iteration of the for loop
RenderStep ==
    /\ pc = "render"
    /\ idx <= Len(items)
    /\ LET b == RenderBody(lines, items[idx])
       IN  /\ lines' = b.lines
           /\ IF b.exc = "none"
              THEN /\ idx' = idx + 1
                   /\ UNCHANGED <<pc, raised, outcome>>
              ELSE /\ raised' = b.exc
                   /\ outcome' = b.exc
                   /\ pc' = "done"
                   /\ UNCHANGED idx
    /\ UNCHANGED <<content, root, to_search, yielded, items, step>>
    /\ UNCHANGED <<vars_r, vars_c, vars_t>>

\* return lines
Return ==
    /\ pc = "render"
    /\ idx > Len(items)
    /\ outcome' = "returned"
    /\ pc' = "done"
    /\ UNCHANGED <<content, root, to_search, yielded, items, lines, idx, raised, step>>
    /\ UNCHANGED <<vars_r, vars_c, vars_t>>

NextParse ==
    \/ Construct
    \/ Load
    \/ RaiseYAMLError
    \/ IterStep
    \/ IterEnd
    \/ RenderStep
    \/ Return

----------------------------------------------------------------------------
(* The body of parse_file's for loop on one record, statement by statement *)

LineAlphabet == {"k", " ", "\t", "#"}

SourceLines == UNION {[1..n -> LineAlphabet] : n \in 0..MaxLineLen}

NoRecord == YAMLValue(PyNone, PyNone, 0, <<>>)

IdleRender ==
    /\ r_pc = "idle"
    /\ r_item = NoRecord
    /\ r_line = <<>>
    /\ r_comment = <<>>
    /\ r_value = <<>>
    /\ r_text = <<>>

InitRender ==
    /\ r_pc = "value"
    /\ r_item \in {YAMLValue(PyStr(KA), v, 1, l) : v \in SecretValues, l \in SourceLines}
    /\ r_line = <<>>
    /\ r_comment = <<>>
    /\ r_value = <<>>
    /\ r_text = <<>>

\* value = item.value, base64 text if it is bytes
EncodeValue ==
    /\ r_pc = "value"
    /\ r_value' = RenderValue(r_item.value)
    /\ r_pc' = "strip"
    /\ UNCHANGED <<r_item, r_line, r_comment, r_text>>
    /\ UNCHANGED <<vars_p, vars_c, vars_t>>

\* line = item.line.strip()
StripLine ==
    /\ r_pc = "strip"
    /\ r_line' = Strip(r_item.line)
    /\ r_pc' = "search"
    /\ UNCHANGED <<r_item, r_comment, r_value, r_text>>
    /\ UNCHANGED <<vars_p, vars_c, vars_t>>

\* comment = '' and the regex search on line
SearchComment ==
    /\ r_pc = "search"
    /\ r_comment' = YamlComment(r_line)
    /\ r_pc' = "format"
    /\ UNCHANGED <<r_item, r_line, r_value, r_text>>
    /\ UNCHANGED <<vars_p, vars_c, vars_t>>

\* value = value.replace(...) and the f-string appended to lines
FormatLine ==
    /\ r_pc = "format"
    /\ r_value' = ReplaceQuote(r_value)
    /\ r_text' = FormatKey(r_item.key) \o <<":", " ", "\"">> \o ReplaceQuote(r_value)
                    \o <<"\"">> \o r_comment
    /\ r_pc' = "done"
    /\ UNCHANGED <<r_item, r_line, r_comment>>
    /\ UNCHANGED <<vars_p, vars_c, vars_t>>

NextRender ==
    \/ EncodeValue
    \/ StripLine
    \/ SearchComment
    \/ FormatLine

IdleParse ==
    /\ pc = "idle"
    /\ content = <<>>
    /\ root = PyNone
    /\ to_search = <<>>
    /\ yielded = <<>>
    /\ items = <<>>
    /\ lines = <<>>
    /\ idx = 1
    /\ raised = "none"
    /\ outcome = "idle"
    /\ step = NoStep

----------------------------------------------------------------------------
(* yaml.nodes, and _tag_dict_values *)

STR == "tag:yaml.org,2002:str"
BINARY == "tag:yaml.org,2002:binary"
INT == "tag:yaml.org,2002:int"
NULL == "tag:yaml.org,2002:null"
MAP == "tag:yaml.org,2002:map"
SET == "tag:yaml.org,2002:set"
SEQ == "tag:yaml.org,2002:seq"
\* A tag of the document's own that ends with ':map' as well
LOCAL_MAP == "!local:map"

\* tag.endswith(':' + name), for the tags above
TagEndsWith(tag, name) ==
    CASE tag = STR -> name = "str"
      [] tag = BINARY -> name = "binary"
      [] tag = INT -> name = "int"
      [] tag = NULL -> name = "null"
      [] tag \in {MAP, LOCAL_MAP} -> name = "map"
      [] tag = SET -> name = "set"
      [] tag = SEQ -> name = "seq"
      [] OTHER -> FALSE

\* A node: value is the raw text of a scalar, the (key, value) pairs of a
\* mapping, the elements of a sequence; line is the attribute __line__, 0 for a
\* node that has none.
Node(kind, tag, value, line) == [kind |-> kind, tag |-> tag, value |-> value, line |-> line]
ScalarNode(tag, value) == Node("scalar", tag, value, 0)
MappingNode(tag, value) == Node("mapping", tag, value, 0)

_create_key_value_pair_for_mapping_node_value(key, value, tag) ==
    <<ScalarNode(STR, key), ScalarNode(tag, value)>>

\* The three-field mapping built for the str or binary node value under key
AugmentedString(map_node_, key, value) ==
    MappingNode(map_node_.tag,
        <<_create_key_value_pair_for_mapping_node_value(VALUE_KEY, value.value, value.tag),
          _create_key_value_pair_for_mapping_node_value(LINE_KEY, Digits(value.line), INT),
          _create_key_value_pair_for_mapping_node_value(ORIGINAL_KEY, key.value, STR)>>)

\* A test that forgets ':binary'
IsStringOnly(value) == TagEndsWith(value.tag, "str")

\* value.tag.endswith(':str') or value.tag.endswith(':binary')
IsStringOrBinary(value) == TagEndsWith(value.tag, "str") \/ TagEndsWith(value.tag, "binary")

\* One iteration of the for loop: the pair appended to new_values
NewPair(map_node_, key, value) ==
    IF ~IsStringOrBinary(value) THEN <<key, value>>
    ELSE <<key, AugmentedString(map_node_, key, value)>>

RECURSIVE NewValues(_, _)
\* The for loop of _tag_dict_values over the pairs
NewValues(map_node_, pairs) ==
    IF pairs = <<>> THEN <<>>
    ELSE <<NewPair(map_node_, Head(pairs)[1], Head(pairs)[2])>> \o NewValues(map_node_, Tail(pairs))

_tag_dict_values(map_node_) == MappingNode(map_node_.tag, NewValues(map_node_, map_node_.value))

----------------------------------------------------------------------------
(* One call of _tag_dict_values, pair by pair *)

\* Nodes the shim has stamped
Stamped(node, line) == [node EXCEPT !.line = line]

KeyNodes == {Stamped(ScalarNode(STR, KA), 1), Stamped(ScalarNode(STR, KB), 2)}

\* Finished value nodes: stamped scalars, a nested mapping already rewritten
\* by its own call, an empty mapping, sequences with a str element
ValueNodes ==
    {Stamped(ScalarNode(t, <<"v">>), l) : t \in {STR, BINARY, INT, NULL}, l \in {1, MaxLine}} \cup
    {MappingNode(MAP, <<>>),
     _tag_dict_values(MappingNode(MAP, <<<<Stamped(ScalarNode(STR, KB), 2),
                                          Stamped(ScalarNode(STR, <<"v">>), 2)>>>>)),
     Stamped(Node("sequence", SEQ, <<Stamped(ScalarNode(STR, <<"v">>), 1)>>, 0), 1),
     \* a sequence the document tags !!str
     Stamped(Node("sequence", STR, <<Stamped(ScalarNode(STR, <<"v">>), 2)>>, 0), 2)}

PairLists == UNION {[1..n -> KeyNodes \X ValueNodes] : n \in 0..MaxPairs}

IdleTag ==
    /\ t_pc = "idle"
    /\ map_node = MappingNode(MAP, <<>>)
    /\ new_values = <<>>
    /\ t_i = 1
    /\ output = MappingNode(MAP, <<>>)

\* new_values = [] for a finished mapping node whose tag ends with ':map'
InitTag ==
    /\ t_pc = "loop"
    /\ map_node \in {Stamped(MappingNode(t, ps), 1) : t \in {MAP, LOCAL_MAP}, ps \in PairLists}
    /\ new_values = <<>>
    /\ t_i = 1
    /\ output = MappingNode(MAP, <<>>)

\* The loop body on a pair whose value is neither str nor binary
TagPass ==
    /\ t_pc = "loop"
    /\ t_i <= Len(map_node.value)
    /\ ~IsStringOrBinary(map_node.value[t_i][2])
    /\ new_values' = new_values \o <<NewPair(map_node, map_node.value[t_i][1], map_node.value[t_i][2])>>
    /\ t_i' = t_i + 1
    /\ UNCHANGED <<t_pc, map_node, output>>
    /\ UNCHANGED <<vars_p, vars_r, vars_c>>

\* The loop body on a pair whose value is str or binary
TagAugment ==
    /\ t_pc = "loop"
    /\ t_i <= Len(map_node.value)
    /\ IsStringOrBinary(map_node.value[t_i][2])
    /\ new_values' = new_values \o <<NewPair(map_node, map_node.value[t_i][1], map_node.value[t_i][2])>>
    /\ t_i' = t_i + 1
    /\ UNCHANGED <<t_pc, map_node, output>>
    /\ UNCHANGED <<vars_p, vars_r, vars_c>>

\* output = MappingNode(tag=map_node.tag, value=new_values, ...); return output
TagReturn ==
    /\ t_pc = "loop"
    /\ t_i > Len(map_node.value)
    /\ output' = MappingNode(map_node.tag, new_values)
    /\ t_pc' = "done"
    /\ UNCHANGED <<map_node, new_values, t_i>>
    /\ UNCHANGED <<vars_p, vars_r, vars_c>>

NextTag ==
    \/ TagPass
    \/ TagAugment
    \/ TagReturn

----------------------------------------------------------------------------
(* _check_next_tokens_shim *)

RECURSIVE CheckLoop(_, _, _, _)
\* for choice in choices: if i < len(tokens): result = result and isinstance(...); i += 1
CheckLoop(tokens, choices, i, res) ==
    IF choices = <<>> THEN res
    ELSE IF i < Len(tokens)
         THEN CheckLoop(tokens, Tail(choices), i + 1, res /\ tokens[i + 1] = Head(choices))
         ELSE CheckLoop(tokens, Tail(choices), i, res)

_check_next_tokens_shim(tokens, choices) ==
    IF tokens # <<>>
    THEN IF choices = <<>> THEN TRUE ELSE CheckLoop(tokens, choices, 0, TRUE)
    ELSE FALSE

----------------------------------------------------------------------------
(* Composition: the shims, driven by PyYAML's parser and composer.          *)
(* The composer calls compose_node (the shim) once per node, recursively;   *)
(* the parser calls parse_flow_mapping_key (the shim) before every key of a *)
(* flow mapping and once more before its end. Block and flow collections    *)
(* push their start mark on loader.marks and pop it at their end; an        *)
(* indentless sequence pushes none. Keys are scalars; anchors and aliases   *)
(* are not modelled.                                                        *)

FlowEntryToken == "FlowEntryToken"
KeyToken == "KeyToken"
ScalarToken == "ScalarToken"
FlowMappingEndToken == "FlowMappingEndToken"
TokenKinds == {FlowEntryToken, KeyToken, ScalarToken, FlowMappingEndToken}

\* loader.tokens as the key shim can find it
TokenQueues == UNION {[1..n -> TokenKinds] : n \in 0..MaxTokens}

\* Scalars of a document: (tag, raw text)
Scalars ==
    {ScalarNode(STR, <<"a">>), ScalarNode(BINARY, <<"a", "G", "k", "=">>),
     ScalarNode(INT, <<"7">>), ScalarNode(NULL, <<>>)}

NoNode == ScalarNode(NULL, <<>>)

NoShim ==
    [op |-> "none", first |-> FALSE, mark_line |-> 0, peek_line |-> 0, tokens |-> <<>>,
     flag_in |-> FALSE, marks_in |-> <<>>, node |-> NoNode, out |-> NoNode]

IdleCompose ==
    /\ is_inline_flow_mapping_key = FALSE
    /\ marks = <<>>
    /\ loader_line = 0
    /\ stack = <<>>
    /\ result = <<>>
    /\ nodes_left = 0
    /\ c_out = "idle"
    /\ last = NoShim

\* YAMLFileParser.__init__ has run; nothing is composed yet
InitCompose ==
    /\ is_inline_flow_mapping_key = FALSE
    /\ marks = <<>>
    /\ loader_line = 0
    /\ stack = <<>>
    /\ result = <<>>
    /\ nodes_left = MaxNodes
    /\ c_out = "running"
    /\ last = NoShim

Top == stack[Len(stack)]
IsFlowMapping(f) == f.kind = "mapping" /\ f.style = "flow"
\* The next node composed under frame f is a key of the mapping
KeyPosition(f) == f.kind = "mapping" /\ Len(f.children) % 2 = 0

\* The composer is about to call compose_node
CanCompose ==
    /\ c_out = "running"
    /\ nodes_left > 0
    /\ IF stack = <<>> THEN result = <<>>
       ELSE /\ Top.phase = "body"
            /\ IsFlowMapping(Top) /\ KeyPosition(Top) => Top.ready
            /\ KeyPosition(Top) => nodes_left >= 2

\* line = self.loader.marks[-1].line if self.is_inline_flow_mapping_key
\*        else self.loader.line
ShimLine == IF is_inline_flow_mapping_key THEN marks[Len(marks)].line ELSE loader_line

\* marks[-1] of an empty list
ShimLineFails == is_inline_flow_mapping_key /\ marks = <<>>

\* The scanner may have moved the line cursor on
Cursors == {l \in loader_line..(loader_line + 1) : l <= MaxCursor}

RECURSIVE Pairs(_)
\* The (key, value) pairs of a mapping from the nodes composed in turn
Pairs(children) ==
    IF Len(children) < 2 THEN <<>>
    ELSE <<<<children[1], children[2]>>>> \o Pairs(SubSeq(children, 3, Len(children)))

\* The call returns node to the composer: it becomes the next child of the
\* enclosing collection, or the document's root.
Delivered(stk, node) ==
    IF stk = <<>> THEN stk
    ELSE [stk EXCEPT ![Len(stk)].children = @ \o <<node>>, ![Len(stk)].ready = FALSE]

\* The tail of _compose_node_shim: the flag after a node with this tag
FlagAfterNode(node, flag) == IF TagEndsWith(node.tag, "map") THEN FALSE ELSE flag

\* The tail of _compose_node_shim: the node it returns
ReturnedNode(node) == IF TagEndsWith(node.tag, "map") THEN _tag_dict_values(node) ELSE node

\* _compose_node_shim for a scalar: entry, the composer's work, exit
ComposeScalar ==
    /\ CanCompose
    /\ IF ShimLineFails
       THEN /\ c_out' = "IndexError"
            /\ last' = [NoShim EXCEPT !.op = "enter", !.flag_in = is_inline_flow_mapping_key,
                                      !.marks_in = marks]
            /\ UNCHANGED <<is_inline_flow_mapping_key, marks, loader_line, stack, result,
                           nodes_left>>
       ELSE \E sc \in Scalars, l \in Cursors :
              LET node == [sc EXCEPT !.line = ShimLine + 1]
              IN  /\ is_inline_flow_mapping_key' = FlagAfterNode(node, is_inline_flow_mapping_key)
                  /\ stack' = Delivered(stack, ReturnedNode(node))
                  /\ result' = IF stack = <<>> THEN <<ReturnedNode(node)>> ELSE result
                  /\ loader_line' = l
                  /\ nodes_left' = nodes_left - 1
                  /\ last' = [NoShim EXCEPT !.op = "scalar",
                                            !.flag_in = is_inline_flow_mapping_key,
                                            !.marks_in = marks, !.node = node,
                                            !.out = ReturnedNode(node)]
                  /\ UNCHANGED <<marks, c_out>>
    /\ UNCHANGED <<vars_p, vars_r, vars_t>>

\* Collections a document can hold at this place: block collections only
\* outside flow collections, an indentless sequence only as the value of a
\* block mapping.
Collections ==
    {c \in [kind : {"mapping", "sequence"}, style : {"flow", "block", "indentless"},
            tag : {MAP, SET, SEQ}] :
        /\ c.kind = "mapping" => c.tag \in {MAP, SET} /\ c.style # "indentless"
        /\ c.kind = "sequence" => c.tag = SEQ
        /\ c.style = "block" => \A i \in 1..Len(stack) : stack[i].style # "flow"
        /\ c.style = "indentless" =>
              stack # <<>> /\ Top.kind = "mapping" /\ Top.style = "block"}

\* Entry of _compose_node_shim for a collection. The parser pushes the start
\* mark of a block collection or flow sequence when it starts it; a flow
\* mapping's mark is pushed by parse_flow_mapping_first, which then calls the
\* key shim.
ComposeEnter ==
    /\ CanCompose
    /\ Len(stack) < MaxDepth
    /\ stack # <<>> => ~KeyPosition(Top)
    /\ IF ShimLineFails
       THEN /\ c_out' = "IndexError"
            /\ last' = [NoShim EXCEPT !.op = "enter", !.flag_in = is_inline_flow_mapping_key,
                                      !.marks_in = marks]
            /\ UNCHANGED <<is_inline_flow_mapping_key, marks, loader_line, stack, result,
                           nodes_left>>
       ELSE \E c \in Collections, l \in Cursors, ml \in 0..loader_line :
              LET opened == c.kind = "mapping" /\ c.style = "flow"
                  frame == [kind |-> c.kind, style |-> c.style, tag |-> c.tag,
                            line |-> ShimLine, children |-> <<>>,
                            phase |-> IF opened THEN "opened" ELSE "body",
                            ready |-> FALSE]
              IN  /\ stack' = stack \o <<frame>>
                  /\ marks' = IF opened \/ c.style = "indentless" THEN marks
                              ELSE marks \o <<[line |-> ml, flow |-> c.style = "flow"]>>
                  /\ opened \/ c.style = "indentless" => ml = 0
                  /\ loader_line' = l
                  /\ nodes_left' = nodes_left - 1
                  /\ last' = [NoShim EXCEPT !.op = "enter",
                                            !.flag_in = is_inline_flow_mapping_key,
                                            !.marks_in = marks]
                  /\ UNCHANGED <<is_inline_flow_mapping_key, result, c_out>>
    /\ UNCHANGED <<vars_p, vars_r, vars_t>>

\* What Parser.parse_flow_mapping_key does next, as far as the pending tokens
\* decide it: a key follows, the mapping ends, or a ParserError.
ParserOutcomes(first, tokens) ==
    IF tokens = <<>> THEN {"key", "end"}
    ELSE IF tokens[1] = FlowMappingEndToken THEN {"end"}
    ELSE IF first THEN (IF tokens[1] = FlowEntryToken THEN {"error"} ELSE {"key"})
    ELSE IF tokens[1] # FlowEntryToken THEN {"error"}
    ELSE IF Len(tokens) = 1 THEN {"key", "end"}
    ELSE IF tokens[2] = FlowMappingEndToken THEN {"end"}
    ELSE IF tokens[2] = FlowEntryToken THEN {"error"}
    ELSE {"key"}

\* is_inline_dictionary of _parse_flow_mapping_key_shim
IsInlineDictionary(first, mark_line, peek_line, tokens) ==
    (first /\ mark_line = peek_line) \/ _check_next_tokens_shim(tokens, <<FlowEntryToken, KeyToken>>)

\* _parse_flow_mapping_key_shim(first), with the parser's own
\* parse_flow_mapping_key it ends with. With first, parse_flow_mapping_first
\* has just pushed the mapping's start mark and peek_token() leaves the queue
\* non-empty.
KeyShim(first) ==
    /\ c_out = "running"
    /\ stack # <<>>
    /\ IsFlowMapping(Top)
    /\ IF first THEN Top.phase = "opened"
       ELSE Top.phase = "body" /\ KeyPosition(Top) /\ Len(Top.children) > 0 /\ ~Top.ready
    /\ \E tokens \in TokenQueues, ml \in 0..loader_line, pl \in 0..MaxCursor, l \in Cursors :
          LET marks1 == IF first THEN marks \o <<[line |-> ml, flow |-> TRUE]>> ELSE marks
              mark_line == marks1[Len(marks1)].line
              flag == IsInlineDictionary(first, mark_line, pl, tokens)
          IN  /\ first => tokens # <<>> /\ pl >= ml
              /\ ~first => ml = 0 /\ pl = 0
              /\ is_inline_flow_mapping_key' = flag
              /\ loader_line' = l
              /\ last' = [NoShim EXCEPT !.op = "key", !.first = first,
                                        !.mark_line = mark_line, !.peek_line = pl,
                                        !.tokens = tokens,
                                        !.flag_in = is_inline_flow_mapping_key,
                                        !.marks_in = marks1]
              /\ \E what \in ParserOutcomes(first, tokens) :
                    CASE what = "key" ->
                           /\ nodes_left >= 2
                           /\ marks' = marks1
                           /\ stack' = [stack EXCEPT ![Len(stack)].phase = "body",
                                                     ![Len(stack)].ready = TRUE]
                           /\ UNCHANGED c_out
                      [] what = "end" ->
                           /\ marks' = SubSeq(marks1, 1, Len(marks1) - 1)
                           /\ stack' = [stack EXCEPT ![Len(stack)].phase = "ended"]
                           /\ UNCHANGED c_out
                      [] OTHER ->
                           /\ marks' = marks1
                           /\ c_out' = "YAMLError"
                           /\ UNCHANGED stack
    /\ UNCHANGED <<result, nodes_left>>
    /\ UNCHANGED <<vars_p, vars_r, vars_t>>

\* The end of a collection reaches the composer and _compose_node_shim
\* finishes: node.__line__ = line + 1, then the ':map' branch. The parser pops
\* the mark of a block collection or flow sequence with its end event; a flow
\* mapping's mark was popped by parse_flow_mapping_key.
ComposeExit ==
    /\ c_out = "running"
    /\ stack # <<>>
    /\ IF IsFlowMapping(Top) THEN Top.phase = "ended"
       ELSE /\ Top.phase = "body"
            /\ Top.kind = "mapping" => KeyPosition(Top)
            /\ Top.style # "flow" => Top.children # <<>>
    /\ LET f == Top
           node == Node(f.kind, f.tag,
                        IF f.kind = "mapping" THEN Pairs(f.children) ELSE f.children,
                        f.line + 1)
           rest == SubSeq(stack, 1, Len(stack) - 1)
       IN  /\ is_inline_flow_mapping_key' = FlagAfterNode(node, is_inline_flow_mapping_key)
           /\ stack' = Delivered(rest, ReturnedNode(node))
           /\ result' = IF rest = <<>> THEN <<ReturnedNode(node)>> ELSE result
           /\ marks' = IF IsFlowMapping(f) \/ f.style = "indentless" THEN marks
                       ELSE SubSeq(marks, 1, Len(marks) - 1)
           /\ last' = [NoShim EXCEPT !.op = "exit", !.flag_in = is_inline_flow_mapping_key,
                                     !.marks_in = marks, !.node = node,
                                     !.out = ReturnedNode(node)]
    /\ UNCHANGED <<loader_line, nodes_left, c_out>>
    /\ UNCHANGED <<vars_p, vars_r, vars_t>>

\* parse_flow_mapping_first calls the shim with first=True
KeyShimFirst == KeyShim(TRUE)

\* parse_flow_mapping_value and parse_flow_mapping_empty_value leave the shim
\* as the parser's next state: it runs with first=False
KeyShimNext == KeyShim(FALSE)

NextCompose ==
    \/ ComposeScalar
    \/ ComposeEnter
    \/ KeyShimFirst
    \/ KeyShimNext
    \/ ComposeExit

----------------------------------------------------------------------------
(* Specifications *)

\* parse_file on one document
Init == InitParse /\ IdleRender /\ IdleCompose /\ IdleTag
Next == NextParse
Spec == Init /\ [][Next]_vars

\* The rendering of one record
InitR == IdleParse /\ InitRender /\ IdleCompose /\ IdleTag
SpecRender == InitR /\ [][NextRender]_vars

\* The composition of one document
InitC == IdleParse /\ IdleRender /\ InitCompose /\ IdleTag
SpecCompose == InitC /\ [][NextCompose]_vars

\* One call of _tag_dict_values
InitT == IdleParse /\ IdleRender /\ IdleCompose /\ InitTag
SpecTag == InitT /\ [][NextTag]_vars

----------------------------------------------------------------------------
(* Properties of parse_file and __iter__ (specification Spec) *)

LineNumbers(recs) == [i \in 1..Len(recs) |-> recs[i].line_number]
MaxLineNumber(recs) ==
    IF recs = <<>> THEN 0
    ELSE CHOOSE m \in {recs[i].line_number : i \in 1..Len(recs)} :
            \A i \in 1..Len(recs) : recs[i].line_number <= m

Perms(n) == {f \in [1..n -> 1..n] : \A i, j \in 1..n : f[i] = f[j] => i = j}
Permuted(recs, f) == [i \in 1..Len(recs) |-> recs[f[i]]]

\* C1: parse_file returns exactly one string per line index from 1 to the
\* largest line number: the entry at position L (0-indexed L-1) is the rendered
\* line of every record with line number L, and every position without a
\* record holds the empty string.
C1_OneStringPerLineIndex ==
    outcome = "returned" =>
        /\ Len(lines) = MaxLineNumber(items)
        /\ \A i \in 1..Len(items) : lines[items[i].line_number] = RenderLine(items[i])
        /\ \A p \in 1..Len(lines) :
              (\A i \in 1..Len(items) : items[i].line_number # p) => lines[p] = <<>>

\* C2: a yaml.YAMLError raised while the loader is built or the document is
\* loaded surfaces as ParsingError; parse_file stops there, having built no
\* line list and returned nothing.
C2_YAMLErrorIsParsingError ==
    /\ raised = "YAMLError" =>
          outcome = "ParsingError" /\ pc = "done" /\ lines = <<>> /\ items = <<>>
    /\ outcome = "ParsingError" => raised = "YAMLError"
    /\ outcome = "returned" => raised = "none"

C2_Witness == raised = "YAMLError" /\ outcome = "ParsingError" /\ pc = "done"

\* The rendering loop has its input: sorted() has returned
SortDone == pc = "render" \/ outcome = "returned"

IsProvenance(item) ==
    /\ item.kind = "dict"
    /\ HasKey(item, VALUE_KEY) /\ HasKey(item, LINE_KEY) /\ HasKey(item, ORIGINAL_KEY)

\* C5: a node of the walk produces a record if and only if it is a
\* three-field provenance mapping; such a node yields exactly one record built
\* from its three fields and the source line at __line__ - 1, and enqueues
\* nothing; every other mapping only has its values enqueued and every
\* sequence only its elements.
C5_RecordIffProvenanceMapping ==
    step.op = "iter" =>
        LET it == step.item
        IN  IF IsProvenance(it)
            THEN /\ step.exc = "none"
                 /\ step.enqueued = <<>>
                 /\ step.recs = <<YAMLValue(DictGet(it, ORIGINAL_KEY), DictGet(it, VALUE_KEY),
                                            DictGet(it, LINE_KEY).n,
                                            content[DictGet(it, LINE_KEY).n])>>
            ELSE /\ step.recs = <<>>
                 /\ it.kind \in {"dict", "list"} =>
                       step.exc = "none" /\ step.enqueued = it.vals

\* C6: a bare scalar that reaches the work queue is skipped: no record, no
\* exception, nothing enqueued.
C6_BareScalarSkipped ==
    step.op = "iter" /\ step.item.kind \notin {"dict", "list"} =>
        step.exc = "none" /\ step.recs = <<>> /\ step.enqueued = <<>>

----------------------------------------------------------------------------
(* Properties of the rendering of one record (specification SpecRender) *)

\* The part of line from the whitespace before the first '#' that has
\* whitespace before it, to the end of line; '' without such a '#'.
CommentToEndOfLine(line) ==
    LET hashes == {j \in 2..Len(line) : line[j] = "#" /\ IsSpace(line[j - 1])}
    IN  IF hashes = {} THEN <<>>
        ELSE LET j == CHOOSE a \in hashes : \A b \in hashes : a <= b
                 runs == {i \in 1..(j - 1) : \A m \in i..(j - 1) : IsSpace(line[m])}
                 i == CHOOSE a \in runs : \A b \in runs : a <= b
             IN  SubSeq(line, i, Len(line))

\* C9: the comment appended to the rendered line runs from the whitespace
\* before the first '#' preceded by whitespace to the end of the source line,
\* whatever it contains, and is empty without such a '#'. Stated for source
\* lines without leading or trailing whitespace, which strip() leaves as they
\* are.
C9_CommentRunsToEndOfLine ==
    r_pc \in {"format", "done"} /\ Strip(r_item.line) = r_item.line =>
        r_comment = CommentToEndOfLine(r_item.line)

----------------------------------------------------------------------------
(* Properties of _tag_dict_values (specification SpecTag) *)

IsSecretTag(tag) == tag \in {STR, BINARY}

\* C3: _tag_dict_values returns a mapping with the same tag, as many pairs, in
\* the same order, with the same key nodes; a pair whose value is tagged str or
\* binary gets a mapping of exactly three fields (__value__: the raw value
\* with its tag, __line__: the line stamped on the scalar, __original_key__:
\* the key's value); every other pair, sequences with their elements
\* included, is unchanged.
C3_TagDictValues ==
    t_pc = "done" =>
        /\ output.kind = "mapping"
        /\ output.tag = map_node.tag
        /\ Len(output.value) = Len(map_node.value)
        /\ \A i \in 1..Len(map_node.value) :
              LET k == map_node.value[i][1]
                  v == map_node.value[i][2]
                  w == output.value[i][2]
              IN  /\ output.value[i][1] = k
                  /\ IF IsSecretTag(v.tag)
                     THEN /\ w.kind = "mapping"
                          /\ Len(w.value) = 3
                          /\ w.value[1] = <<ScalarNode(STR, VALUE_KEY), ScalarNode(v.tag, v.value)>>
                          /\ w.value[2] = <<ScalarNode(STR, LINE_KEY), ScalarNode(INT, Digits(v.line))>>
                          /\ w.value[3] = <<ScalarNode(STR, ORIGINAL_KEY), ScalarNode(STR, k.value)>>
                     ELSE w = v

\* A returned mapping with a binary value rewritten and a sequence passed through
C3_Witness ==
    /\ t_pc = "done"
    /\ \E i, j \in 1..Len(map_node.value) :
          /\ map_node.value[i][2].tag = BINARY
          /\ map_node.value[j][2].kind = "sequence"
          /\ output.value[j][2] = map_node.value[j][2]
          /\ output.value[i][2].kind = "mapping"

----------------------------------------------------------------------------
(* Properties of the composition shims (specification SpecCompose) *)

\* C7: the key shim sets the flag to true if and only if this is the first
\* key and the mapping's start line is the upcoming token's line, or the
\* queue holds at least two tokens of which the first two are FlowEntryToken,
\* KeyToken; otherwise, a queue of fewer than two tokens included, to false.
\* Stated for the calls after which the parser goes on without a ParserError.
C7_FlagIffInlineKeyContext ==
    last.op = "key" /\ c_out = "running" =>
        (is_inline_flow_mapping_key <=>
            \/ last.first /\ last.mark_line = last.peek_line
            \/ /\ Len(last.tokens) >= 2
               /\ last.tokens[1] = FlowEntryToken
               /\ last.tokens[2] = KeyToken)

\* C8: when _compose_node_shim has finished a mapping node, whatever its
\* tag, the flag is false.
C8_FlagClearedAfterMapping ==
    last.op = "exit" /\ last.node.kind = "mapping" => ~is_inline_flow_mapping_key

\* C10: at an entry to _compose_node_shim with the flag true, loader.marks is
\* not empty and a flow collection is open.
C10_FlagOnlyInsideOpenFlow ==
    last.op \in {"enter", "scalar"} /\ last.flag_in =>
        /\ last.marks_in # <<>>
        /\ \E i \in 1..Len(last.marks_in) : last.marks_in[i].flow

====
